---- MODULE Spec2Model ----
(***************************************************************************)
(* State-machine model of elastic_transport.Transport.perform_request     *)
(* (src/elastic_transport/_transport.py) on top of the NodePool contract. *)
(* The node pool (_node_pool.py) and the exception classes                 *)
(* (_exceptions.py) are modelled from the design description, sections    *)
(* 4.2 and 7.                                                             *)
(* Spec is the transport with one caller; SpecPool is the node pool used  *)
(* directly (get, mark_dead, mark_live); SpecRR is get() taken step by    *)
(* step by concurrent callers under the pool mutex (section 5).           *)
(* SpecInit starts before the call Transport(...), made with the keywords *)
(* of the sniffing tests; SpecAdd is the pool while sniffed NodeConfigs   *)
(* are added to it (section 4.2.5), used and closed; SpecNode is the      *)
(* retry loop over two HTTP nodes (_node/_http_*.py) with what each node  *)
(* hands to its HTTP client.                                              *)
(***************************************************************************)
EXTENDS Integers, Sequences, FiniteSets, TLC

\* ------------------------------------------------------------------ bounds
MaxNodes == 2
MaxRetries == 2
MaxRequests == 1
MaxNow == 30
TickStep == 30
MaxFailures == 3
MaxGets == 4
MaxCallers == 3
MaxPoolOps == 3
NodeRetries == 1

\* ------------------------------------------------------- program constants
NOT_DEAD_NODE_HTTP_STATUSES == {400, 401, 403, 404}

DefaultRetryOnStatus == {429, 502, 503, 504}

DefaultMaxRetries == 3

\* e.status of an error that carries no HTTP status (Python None)
NoStatus == 0

\* 60 seconds, the base of the dead-node backoff
BackoffBase == 60

DefaultDeadBackoffFactor == 1

DefaultMaxDeadBackoff == 30

\* data returned when nothing was deserialized (Python None)
NoData == <<"None">>

\* raw_data values a node can hand back: b"" and a non-empty payload
EmptyBytes == ""

SomeBytes == "{}"

VARIABLES cfg, pool, req, now, started, env, transport

vars == <<cfg, pool, req, now, started, env, transport>>

\* ---------------------------------------------------------------- helpers
Min(a, b) == IF a <= b THEN a ELSE b

RECURSIVE Pow2(_)
Pow2(n) == IF n <= 0 THEN 1 ELSE 2 * Pow2(n - 1)

Range(s) == {s[i] : i \in 1..Len(s)}

RECURSIVE RemoveFirst(_, _)
RemoveFirst(s, x) ==
  IF s = <<>> THEN <<>>
  ELSE IF Head(s) = x THEN Tail(s)
  ELSE <<Head(s)>> \o RemoveFirst(Tail(s), x)

\* ------------------------------------------------------------- exceptions
ConnectionErrorTypes == {"ConnectionError", "ConnectionTimeout", "TlsError"}

\* isinstance(e, ConnectionTimeout)
IsConnectionTimeout(e) == e.type = "ConnectionTimeout"

\* isinstance(e, ConnectionError): TlsError and ConnectionTimeout are subtypes
IsConnectionError(e) == e.type \in ConnectionErrorTypes

\* HTTP_STATUS_TO_ERROR.get(status, ApiError)
HTTP_STATUS_TO_ERROR(status) ==
  CASE status = 400 -> "BadRequestError"
    [] status = 401 -> "UnauthorizedError"
    [] status = 402 -> "PaymentRequiredError"
    [] status = 403 -> "ForbiddenError"
    [] status = 404 -> "NotFoundError"
    [] status = 405 -> "MethodNotImplementedError"
    [] status = 409 -> "ConflictError"
    [] status = 429 -> "RateLimitError"
    [] status = 500 -> "InternalServerError"
    [] status = 501 -> "NotImplementedError"
    [] status = 502 -> "BadGatewayError"
    [] status = 503 -> "ServiceUnavailableError"
    [] status = 504 -> "GatewayTimeoutError"
    [] OTHER -> "ApiError"

\* ------------------------------------------------------- node outcomes
Response(status, raw) == [kind |-> "response", status |-> status, raw |-> raw]

Raises(type) == [kind |-> type, status |-> NoStatus, raw |-> EmptyBytes]

\* exceptions a node hands on as they are: recursion limit and cancellation
RERAISE_EXCEPTIONS == {"RecursionError", "CancelledError"}

\* what the HTTP client of a node can raise during a request
ClientExceptions ==
  {"RecursionError", "CancelledError", "ReadTimeoutError", "SSLError",
   "ProtocolError"}

\* slip: the node wraps every exception of its HTTP client
NodeRaises_WrapAll(exc) ==
  IF exc = "ReadTimeoutError" THEN "ConnectionTimeout"
  ELSE IF exc = "SSLError" THEN "TlsError"
  ELSE "ConnectionError"

\* the except clauses of Node.perform_request: what it raises when its HTTP
\* client raises exc
NodeRaises(exc) ==
  IF exc \in RERAISE_EXCEPTIONS THEN exc
  ELSE IF exc = "ReadTimeoutError" THEN "ConnectionTimeout"
  ELSE IF exc = "SSLError" THEN "TlsError"
  ELSE "ConnectionError"

\* Node.perform_request when its HTTP client raises exc; the errors it
\* builds carry exc as their cause (errors=(e,))
Fails(exc) ==
  [kind |-> NodeRaises(exc), status |-> NoStatus, raw |-> EmptyBytes,
   cause |-> exc]

NodeFailures == {Fails(exc) : exc \in ClientExceptions}

\* ---------------------------------------------------------------- NodePool
\* heap order of the dead queue: (due_time, failure_count, node)
DeadBefore(a, b) ==
  \/ a.due < b.due
  \/ a.due = b.due /\ a.failures < b.failures
  \/ a.due = b.due /\ a.failures = b.failures /\ a.node <= b.node

DeadMin(D) == CHOOSE a \in D : \A b \in D : DeadBefore(a, b)

RECURSIVE DeadOrder(_)
DeadOrder(D) ==
  IF D = {} THEN <<>>
  ELSE <<DeadMin(D).node>> \o DeadOrder(D \ {DeadMin(D)})

RECURSIVE AppendMissing(_, _)
AppendMissing(alive, s) ==
  IF s = <<>> THEN alive
  ELSE AppendMissing(IF Head(s) \in Range(alive) THEN alive
                     ELSE Append(alive, Head(s)), Tail(s))

\* 4.2.1 construction: one node per seed, all alive, nothing dead
NewPool(order) ==
  [all_nodes |-> Range(order),
   alive_nodes |-> order,
   dead_nodes |-> {},
   dead_consecutive_failures |-> [n \in Range(order) |-> 0],
   cursor |-> 0,
   lock |-> 0]

\* slip: a node that comes back when due starts with a clean failure count
resurrect_Resets(p, t) ==
  LET due == {d \in p.dead_nodes : d.due <= t}
  IN [p EXCEPT !.alive_nodes = AppendMissing(@, DeadOrder(due)),
               !.dead_nodes = @ \ due,
               !.dead_consecutive_failures =
                 [n \in DOMAIN @ |->
                    IF \E d \in due : d.node = n THEN 0 ELSE @[n]]]

\* 4.2.2: every dead node whose due_time <= now goes back to the alive set,
\* failure count preserved
resurrect(p, t) ==
  LET due == {d \in p.dead_nodes : d.due <= t}
  IN [p EXCEPT !.alive_nodes = AppendMissing(@, DeadOrder(due)),
               !.dead_nodes = @ \ due]

\* slip: the round-robin cursor is read but not advanced
select_CursorStuck(p, selector) ==
  LET n == Len(p.alive_nodes)
  IN IF selector = "round_robin"
     THEN {<<p.alive_nodes[(p.cursor % n) + 1], p.cursor>>}
     ELSE {<<p.alive_nodes[i], p.cursor>> : i \in 1..n}

\* 4.2.6 selectors: the set of <<node, cursor'>> a selection can give
select(p, selector) ==
  LET n == Len(p.alive_nodes)
  IN IF selector = "round_robin"
     THEN {<<p.alive_nodes[(p.cursor % n) + 1], ((p.cursor % n) + 1) % n>>}
     ELSE {<<p.alive_nodes[i], p.cursor>> : i \in 1..n}

\* slip: the forced resurrection resets the failure count
get_ForcedResets(p0, selector, t) ==
  LET p == resurrect(p0, t)
  IN IF p.alive_nodes # <<>>
     THEN {<<s[1], [p EXCEPT !.cursor = s[2]]>> : s \in select(p, selector)}
     ELSE IF p.dead_nodes # {}
     THEN LET d == DeadMin(p.dead_nodes)
          IN {<<d.node, [p EXCEPT !.dead_nodes = @ \ {d},
                                  !.dead_consecutive_failures[d.node] = 0]>>}
     ELSE {<<n, p>> : n \in p.all_nodes}

\* 4.2.2 get(): the set of <<node, pool'>> a call can give
get(p0, selector, t) ==
  LET p == resurrect(p0, t)
  IN IF p.alive_nodes # <<>>
     THEN {<<s[1], [p EXCEPT !.cursor = s[2]]>> : s \in select(p, selector)}
     ELSE IF p.dead_nodes # {}
     THEN LET d == DeadMin(p.dead_nodes)
          IN {<<d.node, [p EXCEPT !.dead_nodes = @ \ {d}]>>}
     ELSE {<<n, p>> : n \in p.all_nodes}

\* slip: the backoff is not capped
backoff_Uncapped(failures, factor, maxBackoff) ==
  BackoffBase * factor * Pow2(failures - 1)

\* 4.2.3 backoff of the failures-th consecutive failure
backoff(failures, factor, maxBackoff) ==
  Min(maxBackoff, BackoffBase * factor * Pow2(failures - 1))

\* slip: an already-dead node gets a second entry in the dead queue
pool_mark_dead_PushAgain(p, node, t, factor, maxBackoff) ==
  LET failures == p.dead_consecutive_failures[node] + 1
      entry == [due |-> t + backoff(failures, factor, maxBackoff),
                failures |-> failures, node |-> node]
  IN [p EXCEPT !.alive_nodes = RemoveFirst(@, node),
               !.dead_consecutive_failures[node] = failures,
               !.dead_nodes = @ \cup {entry}]

\* 4.2.3 mark_dead(node): the failure count goes up by one, the node leaves
\* the alive set and its entry in the dead queue carries the new due_time
pool_mark_dead(p, node, t, factor, maxBackoff) ==
  LET failures == p.dead_consecutive_failures[node] + 1
      entry == [due |-> t + backoff(failures, factor, maxBackoff),
                failures |-> failures, node |-> node]
  IN [p EXCEPT !.alive_nodes = RemoveFirst(@, node),
               !.dead_consecutive_failures[node] = failures,
               !.dead_nodes = {d \in @ : d.node # node} \cup {entry}]

\* 4.2.4 mark_live(node)
mark_live(p, node) ==
  IF p.dead_consecutive_failures[node] # 0
  THEN [p EXCEPT !.dead_consecutive_failures[node] = 0,
                 !.alive_nodes = AppendMissing(@, <<node>>)]
  ELSE p

\* --------------------------------------------------------------- Transport
\* a Transport whose __init__ has returned
Constructed == [state |-> "created"]

\* slip: the node is not reported to the pool
mark_dead_NoOp(p, node, t, c) == p

\* Transport.mark_dead: delegates to the pool
mark_dead(p, node, t, c) ==
  pool_mark_dead(p, node, t, c.dead_backoff_factor, c.max_dead_backoff)

\* deserializer.loads(raw_data, mimetype)
loads(raw) == <<"loads", raw>>

\* data of an attempt: deserialized unless raw_data is None or b""
Deserialize(raw) == IF raw \notin {EmptyBytes} THEN loads(raw) ELSE NoData

\* the try block ran through: the node returned and the status is 2xx
NoError(o, ignore_status) ==
  o.kind = "response" /\ 200 <= o.status /\ o.status <= 299

\* the TransportError the try block raises for a node outcome
ErrorOf(o) ==
  IF o.kind = "response"
  THEN [type |-> HTTP_STATUS_TO_ERROR(o.status), status |-> o.status]
  ELSE [type |-> o.kind, status |-> NoStatus]

\* slip: a timeout is treated like any other connection error
ShouldRetry_TimeoutAlways(e, c) ==
  IF IsConnectionError(e) THEN TRUE
  ELSE e.status \in c.retry_on_status

\* slip: every connection error is subject to retry_on_timeout
ShouldRetry_ConnErrAsTimeout(e, c) ==
  IF IsConnectionTimeout(e) \/ IsConnectionError(e) THEN c.retry_on_timeout
  ELSE e.status \in c.retry_on_status

\* slip: every error response is retried
ShouldRetry_AnyStatus(e, c) ==
  IF IsConnectionTimeout(e) THEN c.retry_on_timeout
  ELSE TRUE

\* the retry decision of the except block
ShouldRetry(e, c) ==
  IF IsConnectionTimeout(e) THEN c.retry_on_timeout
  ELSE IF IsConnectionError(e) THEN TRUE
  ELSE e.status \in c.retry_on_status

\* slip: every retried failure marks the node dead
ShouldMarkDead_AnyRetried(e, attempt, c) == ShouldRetry(e, c)

\* slip: every node failure marks the node dead, retried or not
ShouldMarkDead_AnyNodeFailure(e, attempt, c) ==
  e.status \notin NOT_DEAD_NODE_HTTP_STATUSES

\* slip: the last attempt raises before the node is marked dead
ShouldMarkDead_NotOnLast(e, attempt, c) ==
  /\ ShouldRetry(e, c)
  /\ e.status \notin NOT_DEAD_NODE_HTTP_STATUSES
  /\ attempt # c.max_retries

\* only mark as dead if we are retrying and the status is a node failure;
\* decided on every attempt, the last one included
ShouldMarkDead(e, attempt, c) ==
  ShouldRetry(e, c) /\ e.status \notin NOT_DEAD_NODE_HTTP_STATUSES

\* slip: off by one in the last-attempt test
LastAttempt_OffByOne(attempt, c) == attempt = c.max_retries + 1

\* raise exception on last retry
LastAttempt(attempt, c) == attempt = c.max_retries

\* slip: newest error first
AppendError_NewestFirst(errors, e) == <<e>> \o errors

\* errors.append(e)
AppendError(errors, e) == Append(errors, e)

\* slip: a successful attempt leaves the pool alone
confirm_live_Skipped(p, node) == p

\* else branch of the try: the node didn't fail, confirm its live status
confirm_live(p, node) == mark_live(p, node)

\* mark_dead ran through without raising
MarkDeadDone == "no"

\* except TransportError: pass, around self.mark_dead(node)
Swallowed(raised) == raised = "TransportError"

\* the try block raised something that is not a TransportError: no except
\* clause of the loop applies
Uncaught(o) == o.kind \notin {"response"} \cup ConnectionErrorTypes

\* the exception that leaves perform_request when mark_dead raises one the
\* except clause does not catch
Propagated(raised, node) ==
  [kind |-> "raise", status |-> NoStatus, node |-> node, data |-> NoData,
   type |-> raised, errors |-> <<>>]

\* slip: the loop makes one pass less
InRange_Short(attempt, c) == attempt < c.max_retries

\* for attempt in range(self.max_retries + 1)
InRange(attempt, c) == attempt < c.max_retries + 1

NoResult ==
  [kind |-> "none", status |-> NoStatus, node |-> 0, data |-> NoData,
   type |-> "none", errors |-> <<>>]

\* return response, data
Returned(o, node) ==
  [kind |-> "return", status |-> o.status, node |-> node,
   data |-> Deserialize(o.raw), type |-> "none", errors |-> <<>>]

\* e.errors = tuple(errors); raise
Raised(e, node, errors, data) ==
  [kind |-> "raise", status |-> e.status, node |-> node, data |-> data,
   type |-> e.type, errors |-> errors]

\* raise ValueError("Must provide a 'Content-Type' header ...")
RaisedValueError == [NoResult EXCEPT !.kind = "raise", !.type = "ValueError"]

\* the for loop ran out without return or raise: the call yields None
Exhausted == [NoResult EXCEPT !.kind = "exhausted"]

\* a caller outside perform_request; calls, marked and lived record the
\* Node.perform_request, mark_dead and mark_live invocations of one call,
\* md_errors the errors its mark_dead invocations raised
IdleReq ==
  [pc |-> "idle", method |-> "GET", ignore_status |-> {}, body |-> "None",
   content_type |-> FALSE, attempt |-> 0,
   node |-> 0, errors |-> <<>>, calls |-> <<>>, marked |-> <<>>,
   md_errors |-> <<>>, lived |-> <<>>, result |-> NoResult, t0 |-> 0]

\* slip: the body is serialized without looking for the header
MissingContentType_Never(body, contentType) == FALSE

\* the body needs a Content-Type header to be serialized
MissingContentType(body, contentType) == body # "None" /\ ~contentType

\* perform_request up to the retry loop: request preparation
PerformRequest(c, method, ignore_status, body, contentType) ==
  /\ req[c].pc = "idle"
  /\ started < MaxRequests
  /\ started' = started + 1
  /\ LET r == [IdleReq EXCEPT !.method = method,
                 !.ignore_status = ignore_status,
                 !.body = body, !.content_type = contentType,
                 !.t0 = now]
     IN IF MissingContentType(body, contentType)
        THEN req' = [req EXCEPT ![c] =
                       [r EXCEPT !.pc = "done", !.result = RaisedValueError]]
        ELSE req' = [req EXCEPT ![c] = [r EXCEPT !.pc = "get"]]
  /\ UNCHANGED <<cfg, pool, now, env, transport>>

\* loop head and node = self.node_pool.get()
GetNode(c) ==
  /\ req[c].pc = "get"
  /\ IF InRange(req[c].attempt, cfg)
     THEN \E g \in get(pool, cfg.selector, now) :
            /\ pool' = g[2]
            /\ req' = [req EXCEPT ![c].pc = "node", ![c].node = g[1]]
     ELSE /\ req' = [req EXCEPT ![c].pc = "done", ![c].result = Exhausted]
          /\ pool' = pool
  /\ UNCHANGED <<cfg, now, started, env, transport>>

\* one pass of the loop body after get(): the node call and its handling;
\* md is what self.mark_dead(node) does when it is called
Attempt(c, o, md) ==
  /\ req[c].pc = "node"
  /\ o \in env.outcomes[req[c].node]
  /\ md \in env.mark_dead
  /\ LET r == req[c]
         node == r.node
         r0 == [r EXCEPT !.calls = Append(@, [node |-> node, outcome |-> o])]
         e == ErrorOf(o)
         dead == ShouldMarkDead(e, r.attempt, cfg)
         failed == dead /\ md # MarkDeadDone
     IN IF Uncaught(o)
        THEN /\ pool' = pool
             /\ req' = [req EXCEPT ![c] =
                          [r0 EXCEPT !.pc = "done",
                             !.result = Propagated(o.kind, node)]]
        ELSE IF NoError(o, r.ignore_status)
        THEN /\ pool' = confirm_live(pool, node)
             /\ req' = [req EXCEPT ![c] =
                          [r0 EXCEPT !.pc = "done",
                             !.lived = Append(@, node),
                             !.result = Returned(o, node)]]
        ELSE /\ pool' = IF dead /\ ~failed
                        THEN mark_dead(pool, node, now, cfg) ELSE pool
             /\ req' = [req EXCEPT ![c] =
                  LET r1 == [r0 EXCEPT !.marked =
                               IF dead
                               THEN Append(@, [attempt |-> r.attempt,
                                               node |-> node])
                               ELSE @,
                             !.md_errors =
                               IF failed
                               THEN Append(@, [attempt |-> r.attempt,
                                               type |-> md])
                               ELSE @]
                  IN IF failed /\ ~Swallowed(md)
                     THEN [r1 EXCEPT !.pc = "done",
                                     !.result = Propagated(md, node)]
                     ELSE IF ShouldRetry(e, cfg) /\ ~LastAttempt(r.attempt, cfg)
                     THEN [r1 EXCEPT !.pc = "get",
                                     !.errors = AppendError(@, e),
                                     !.attempt = @ + 1, !.node = 0]
                     ELSE [r1 EXCEPT !.pc = "done",
                             !.result = Raised(e, node, r.errors,
                                               Deserialize(o.raw))]]
  /\ UNCHANGED <<cfg, now, started, env, transport>>

\* the caller takes the result; the call is over
Finish(c) ==
  /\ req[c].pc = "done"
  /\ req' = [req EXCEPT ![c] = IdleReq]
  /\ UNCHANGED <<cfg, pool, now, started, env, transport>>

\* the monotonic clock advances
Tick ==
  /\ now < MaxNow
  /\ now' = now + TickStep
  /\ UNCHANGED <<cfg, pool, req, started, env, transport>>

\* ------------------------------------------------------------ input menus
Methods == {"GET", "HEAD"}

Bodies == {"None", "structured"}

\* what a mark_dead call can do: run through, or raise a TransportError or
\* an error of another class
MarkDeadMenu == {MarkDeadDone, "TransportError", "RuntimeError"}

\* the requests of the general case: <<body, Content-Type given>>
DefaultPrep == {<<"None", FALSE>>, <<"structured", FALSE>>}

IgnoreStatusMenu == {{}, {404}}

RetryOnStatusMenu == {DefaultRetryOnStatus, {401, 403, 404}}

\* what a node can do with a request: answer, or fail to connect in time,
\* at all, or over TLS
AllOutcomes ==
  {Response(200, SomeBytes), Response(404, EmptyBytes),
   Response(502, SomeBytes),
   Raises("ConnectionError"), Raises("ConnectionTimeout"), Raises("TlsError")}

\* the clusters of the general case: nodes that answer or refuse the
\* connection, and nodes behind TLS that answer 200, fail the handshake or
\* time out
OutcomeMenu ==
  {AllOutcomes \ {Raises("TlsError"), Raises("ConnectionTimeout")},
   {Response(200, SomeBytes), Raises("TlsError"), Raises("ConnectionTimeout")}}

TestOutcomes ==
  {Response(401, EmptyBytes), Response(403, EmptyBytes),
   Response(555, EmptyBytes), Response(500, EmptyBytes),
   Response(200, EmptyBytes), Response(299, EmptyBytes),
   Response(502, EmptyBytes)}

Next ==
  \/ \E c \in DOMAIN req, m \in env.methods, i \in env.ignore, b \in Bodies,
        ct \in BOOLEAN :
       <<b, ct>> \in env.prep /\ PerformRequest(c, m, i, b, ct)
  \/ \E c \in DOMAIN req : GetNode(c)
  \/ \E c \in DOMAIN req, o \in AllOutcomes \cup TestOutcomes \cup NodeFailures,
        md \in MarkDeadMenu : Attempt(c, o, md)
  \/ \E c \in DOMAIN req : Finish(c)
  \/ Tick

\* Transport.__init__ defaults
DefaultCfg ==
  [max_retries |-> DefaultMaxRetries,
   retry_on_timeout |-> FALSE,
   retry_on_status |-> DefaultRetryOnStatus,
   selector |-> "round_robin",
   dead_backoff_factor |-> DefaultDeadBackoffFactor,
   max_dead_backoff |-> DefaultMaxDeadBackoff]

\* Transport.__init__ with every supported retry policy, one caller, nodes
\* that can answer anything; the nodes being alike, their initial order is
\* left unshuffled
InitGeneral ==
  /\ \E n \in 1..MaxNodes : pool = NewPool([i \in 1..n |-> i])
  /\ \E r \in 0..MaxRetries, rot \in BOOLEAN, ros \in RetryOnStatusMenu,
        sel \in {"round_robin", "random"} :
       cfg = [DefaultCfg EXCEPT !.max_retries = r, !.retry_on_timeout = rot,
                                !.retry_on_status = ros, !.selector = sel]
  /\ \E os \in OutcomeMenu :
       env = [outcomes |-> [n \in pool.all_nodes |-> os],
            methods |-> {"GET"}, ignore |-> IgnoreStatusMenu, test |-> "none",
            prep |-> DefaultPrep, mark_dead |-> {MarkDeadDone}]

\* the transports the test-suite builds, with nodes that always answer the same
\* (tests/test_transport.py, tests/async_/test_async_transport.py), and two
\* variants of them: a HEAD answered 200 with a payload, a mark_dead that
\* raises an error of a class other than TransportError, and a node whose
\* HTTP client raises
TestTransports ==
  {[test |-> "fail_after_x_retries", order |-> <<1>>, cfg |-> DefaultCfg,
    outcomes |-> <<{Raises("ConnectionError")}>>, methods |-> {"GET"}],
   [test |-> "marked_as_dead", order |-> <<1, 2>>, cfg |-> DefaultCfg,
    outcomes |-> <<{Raises("ConnectionError")}, {Raises("ConnectionError")}>>,
    methods |-> {"GET"}],
   [test |-> "marked_as_dead", order |-> <<2, 1>>, cfg |-> DefaultCfg,
    outcomes |-> <<{Raises("ConnectionError")}, {Raises("ConnectionError")}>>,
    methods |-> {"GET"}],
   [test |-> "retry_on_status", order |-> <<1, 2, 3, 4>>,
    cfg |-> [DefaultCfg EXCEPT !.retry_on_status = {401, 403, 404},
                               !.max_retries = 5],
    outcomes |-> <<{Response(404, EmptyBytes)}, {Response(401, EmptyBytes)},
                   {Response(403, EmptyBytes)}, {Response(555, EmptyBytes)}>>,
    methods |-> {"GET"}],
   [test |-> "retry_on_timeout", order |-> <<1, 2>>,
    cfg |-> [DefaultCfg EXCEPT !.retry_on_timeout = TRUE],
    outcomes |-> <<{Raises("ConnectionTimeout")}, {Response(500, EmptyBytes)}>>,
    methods |-> {"GET"}],
   [test |-> "retry_on_timeout", order |-> <<1, 2>>, cfg |-> DefaultCfg,
    outcomes |-> <<{Raises("ConnectionTimeout")}, {Response(500, EmptyBytes)}>>,
    methods |-> {"GET"}],
   [test |-> "head_response_false", order |-> <<1>>, cfg |-> DefaultCfg,
    outcomes |-> <<{Response(404, EmptyBytes)}>>, methods |-> {"HEAD"}],
   [test |-> "head_response_true", order |-> <<1>>, cfg |-> DefaultCfg,
    outcomes |-> <<{Response(200, EmptyBytes), Response(299, EmptyBytes)}>>,
    methods |-> {"HEAD"}],
   [test |-> "head_with_payload", order |-> <<1>>, cfg |-> DefaultCfg,
    outcomes |-> <<{Response(200, SomeBytes)}>>, methods |-> {"HEAD"}],
   [test |-> "body_gets_encoded", order |-> <<1>>, cfg |-> DefaultCfg,
    outcomes |-> <<{Response(200, EmptyBytes)}>>, methods |-> {"GET"},
    prep |-> {<<"structured", TRUE>>}],
   [test |-> "mark_dead_error", order |-> <<1, 2>>,
    cfg |-> [DefaultCfg EXCEPT !.retry_on_status = {502}],
    outcomes |-> <<{Response(502, EmptyBytes)}, {Response(200, EmptyBytes)}>>,
    methods |-> {"GET"}, mark_dead |-> MarkDeadMenu],
   [test |-> "client_exceptions", order |-> <<1, 2>>,
    cfg |-> [DefaultCfg EXCEPT !.retry_on_status = {502}],
    outcomes |-> <<{Response(502, EmptyBytes)}, NodeFailures>>,
    methods |-> {"GET"}]}

InitTests ==
  \E t \in TestTransports :
    /\ pool = NewPool(t.order)
    /\ cfg = t.cfg
    /\ env = [outcomes |-> [n \in Range(t.order) |-> t.outcomes[n]],
              methods |-> t.methods, ignore |-> {{}}, test |-> t.test,
              prep |-> IF "prep" \in DOMAIN t THEN t.prep
                       ELSE {<<"None", FALSE>>},
              mark_dead |-> IF "mark_dead" \in DOMAIN t THEN t.mark_dead
                            ELSE {MarkDeadDone}]

Init ==
  /\ InitGeneral \/ InitTests
  /\ req = [c \in {1} |-> IdleReq]
  /\ now = 0
  /\ started = 0
  /\ transport = Constructed

Spec == Init /\ [][Next]_vars

\* ------------------------------------------------- Transport(...) itself
\* the parameters of Transport.__init__; there is no **kwargs
InitParameters ==
  {"node_configs", "node_class", "node_pool_class", "randomize_nodes_in_pool",
   "node_selector_class", "dead_backoff_factor", "max_dead_backoff",
   "serializers", "max_retries", "retry_on_status", "retry_on_timeout"}

\* the keywords the sniffing tests pass: the three triggers and the callback
SniffTriggers ==
  {"sniff_on_start", "sniff_before_requests", "sniff_on_node_failure"}

SniffKeywords == SniffTriggers \cup {"sniff_callback"}

\* SniffOptions(is_initial_sniff=..., sniff_timeout=1.0), what the tests
\* expect the callback to be handed
SniffOptions(is_initial) == [is_initial_sniff |-> is_initial, sniff_timeout |-> 1]

\* the keyword sets of the calls Transport(node_configs, node_class=DummyNode,
\* randomize_nodes_in_pool=False, ...): max_retries=1 or left out, and any
\* of the sniffing keywords
KeywordsMenu ==
  {a \cup b : a \in SUBSET {"max_retries"}, b \in SUBSET SniffKeywords}

\* a call Transport(**keywords) not made yet; sniff_calls are the options
\* of the invocations of the callback handed in as sniff_callback
NotConstructed(keywords, raises) ==
  [state |-> "none", kwargs |-> keywords, callback_raises |-> raises,
   sniff_calls |-> <<>>]

\* Transport(...): a keyword that is not a parameter of __init__ makes the
\* call raise TypeError before the body runs; otherwise the policy is stored
\* and the pool is built from node_configs, unshuffled
Construct ==
  /\ transport.state = "none"
  /\ IF transport.kwargs \subseteq InitParameters
     THEN /\ transport' = [transport EXCEPT !.state = "created"]
          /\ cfg' = [DefaultCfg EXCEPT !.max_retries =
                       IF "max_retries" \in transport.kwargs THEN 1
                       ELSE DefaultMaxRetries]
          /\ pool' = NewPool(env.node_configs)
     ELSE /\ transport' = [transport EXCEPT !.state = "TypeError"]
          /\ UNCHANGED <<cfg, pool>>
  /\ UNCHANGED <<req, now, started, env>>

\* the answers of the nodes of the sniffing tests: 200, a 500 that is not
\* retried and a 502 that is
SniffTestOutcomes ==
  {Response(200, EmptyBytes), Response(500, EmptyBytes),
   Response(502, EmptyBytes)}

\* before the call Transport(...): two seed NodeConfigs whose nodes answer
\* anything, and a sniff_callback that returns or raises
InitConstruct ==
  /\ \E k \in KeywordsMenu, raises \in BOOLEAN :
       /\ raises => "sniff_callback" \in k
       /\ transport = NotConstructed(k, raises)
  /\ \E os \in OutcomeMenu \cup {SniffTestOutcomes} :
       env = [outcomes |-> [n \in 1..2 |-> os],
              node_configs |-> <<1, 2>>,
              methods |-> {"GET"}, ignore |-> {{}}, test |-> "construct",
              prep |-> {<<"None", FALSE>>}, mark_dead |-> {MarkDeadDone}]
  /\ pool = NewPool(<<>>)
  /\ cfg = DefaultCfg
  /\ req = [c \in {1} |-> IdleReq]
  /\ now = 0
  /\ started = 0

NextConstruct ==
  \/ Construct
  \/ transport.state = "created" /\ Next

SpecInit == InitConstruct /\ [][NextConstruct]_vars

\* ------------------------------------------- the node pool used directly
\* a caller of the pool: the node it holds, the nodes the get() calls
\* returned since the alive set last changed (the last MaxGets of them), and
\* per node the backoff of its latest mark_dead (0 after mark_live)
PoolCaller(nodes) ==
  [pc |-> "pool", held |-> 0, gets |-> <<>>, timeouts |-> [n \in nodes |-> 0]]

LastGets(s) ==
  IF Len(s) <= MaxGets THEN s ELSE SubSeq(s, Len(s) - MaxGets + 1, Len(s))

DeadBackoffFactorMenu == {DefaultDeadBackoffFactor, 2}

MaxDeadBackoffMenu == {DefaultMaxDeadBackoff, 200}

\* node = pool.get()
PoolGet(c) ==
  /\ req[c].held = 0
  /\ \E g \in get(pool, cfg.selector, now) :
       /\ pool' = g[2]
       /\ req' = [req EXCEPT ![c].held = g[1],
                  ![c].gets =
                    IF g[2].alive_nodes = <<>> THEN <<>>
                    ELSE IF g[2].alive_nodes = pool.alive_nodes
                    THEN LastGets(Append(@, g[1]))
                    ELSE <<g[1]>>]
  /\ UNCHANGED <<cfg, now, started, env, transport>>

\* pool.mark_dead(node) on the node the caller holds
PoolMarkDead(c) ==
  /\ req[c].held # 0
  /\ pool.dead_consecutive_failures[req[c].held] < MaxFailures
  /\ LET node == req[c].held
         p == pool_mark_dead(pool, node, now, cfg.dead_backoff_factor,
                             cfg.max_dead_backoff)
         entry == CHOOSE d \in p.dead_nodes : d.node = node
     IN /\ pool' = p
        /\ req' = [req EXCEPT ![c].held = 0, ![c].gets = <<>>,
                              ![c].timeouts[node] = entry.due - now]
  /\ UNCHANGED <<cfg, now, started, env, transport>>

\* pool.mark_live(node) on the node the caller holds
PoolMarkLive(c) ==
  /\ req[c].held # 0
  /\ LET node == req[c].held
         p == mark_live(pool, node)
     IN /\ pool' = p
        /\ req' = [req EXCEPT ![c].held = 0,
                              ![c].gets = IF p.alive_nodes = pool.alive_nodes
                                          THEN @ ELSE <<>>,
                              ![c].timeouts[node] = 0]
  /\ UNCHANGED <<cfg, now, started, env, transport>>

InitPool ==
  /\ \E n \in 1..MaxNodes : pool = NewPool([i \in 1..n |-> i])
  /\ \E f \in DeadBackoffFactorMenu, m \in MaxDeadBackoffMenu :
       cfg = [DefaultCfg EXCEPT !.dead_backoff_factor = f,
                                !.max_dead_backoff = m]
  /\ req = [c \in {1} |-> PoolCaller(pool.all_nodes)]
  /\ env = [test |-> "pool"]
  /\ now = 0
  /\ started = 0
  /\ transport = Constructed

NextPool ==
  \/ \E c \in DOMAIN req : PoolGet(c)
  \/ \E c \in DOMAIN req : PoolMarkDead(c)
  \/ \E c \in DOMAIN req : PoolMarkLive(c)
  \/ Tick

SpecPool == InitPool /\ [][NextPool]_vars

\* ------------------------------------ concurrent get() calls, step by step
\* slip: the selection runs without the pool mutex
LockFree_Always(p) == TRUE

\* 5: the pool mutex is free (0) or held by a caller
LockFree(p) == p.lock = 0

\* a caller about to call get(): sel is the <<node, cursor'>> it selected
RRCaller == [pc |-> "start", offset |-> 0, sel |-> <<0, 0>>, got |-> 0]

\* get(): take the pool mutex
RRAcquire(c) ==
  /\ req[c].pc = "start"
  /\ LockFree(pool)
  /\ pool' = [pool EXCEPT !.lock = c]
  /\ req' = [req EXCEPT ![c].pc = "read"]
  /\ UNCHANGED <<cfg, now, started, env, transport>>

\* the selector reads the cursor and picks the node at that offset
RRRead(c) ==
  /\ req[c].pc = "read"
  /\ \E s \in select(pool, cfg.selector) :
       req' = [req EXCEPT ![c].pc = "write", ![c].sel = s,
                          ![c].offset = pool.cursor % Len(pool.alive_nodes)]
  /\ UNCHANGED <<cfg, pool, now, started, env, transport>>

\* the selector stores the advanced cursor
RRWrite(c) ==
  /\ req[c].pc = "write"
  /\ pool' = [pool EXCEPT !.cursor = req[c].sel[2]]
  /\ req' = [req EXCEPT ![c].pc = "release", ![c].got = req[c].sel[1]]
  /\ UNCHANGED <<cfg, now, started, env, transport>>

\* get() returns: the mutex is released
RRRelease(c) ==
  /\ req[c].pc = "release"
  /\ pool' = [pool EXCEPT !.lock = IF @ = c THEN 0 ELSE @]
  /\ req' = [req EXCEPT ![c].pc = "done"]
  /\ UNCHANGED <<cfg, now, started, env, transport>>

\* N callers arrive at a pool of M alive nodes whose cursor is anywhere
InitRR ==
  /\ \E m \in 1..MaxNodes, k \in 0..(MaxNodes - 1) :
       /\ k < m
       /\ pool = [NewPool([i \in 1..m |-> i]) EXCEPT !.cursor = k]
       /\ env = [test |-> "rr", cursor0 |-> k]
  /\ \E n \in 1..MaxCallers : req = [c \in 1..n |-> RRCaller]
  /\ cfg = DefaultCfg
  /\ now = 0
  /\ started = 0
  /\ transport = Constructed

NextRR ==
  \/ \E c \in DOMAIN req : RRAcquire(c)
  \/ \E c \in DOMAIN req : RRRead(c)
  \/ \E c \in DOMAIN req : RRWrite(c)
  \/ \E c \in DOMAIN req : RRRelease(c)

SpecRR == InitRR /\ [][NextRR]_vars

\* ------------------------------------------------ adding nodes (4.2.5)
\* slip: every NodeConfig handed in gets a new Node
pool_add_Again(p, config) ==
  [p EXCEPT !.all_nodes = @ \cup {config},
            !.alive_nodes = Append(@, config),
            !.dead_nodes = {d \in @ : d.node # config},
            !.dead_consecutive_failures =
              [n \in p.all_nodes \cup {config} |->
                 IF n \in p.all_nodes \ {config}
                 THEN p.dead_consecutive_failures[n] ELSE 0]]

\* a NodeConfig already in all_nodes is ignored; a new one gets a Node from
\* the factory, appended to the alive set
pool_add(p, config) ==
  IF config \in p.all_nodes THEN p
  ELSE [p EXCEPT !.all_nodes = @ \cup {config},
                 !.alive_nodes = Append(@, config),
                 !.dead_consecutive_failures =
                   [n \in p.all_nodes \cup {config} |->
                      IF n \in p.all_nodes
                      THEN p.dead_consecutive_failures[n] ELSE 0]]

\* merge of a list of sniffed NodeConfigs, under the pool mutex
RECURSIVE Merge(_, _)
Merge(p, configs) ==
  IF configs = <<>> THEN p
  ELSE Merge(pool_add(p, Head(configs)), Tail(configs))

\* lists of NodeConfigs a sniff can hand to the pool
SniffedMenu ==
  {<<>>} \cup {<<a>> : a \in 1..(MaxNodes + 1)}
         \cup {<<a, a + 1>> : a \in 1..MaxNodes}
         \cup {<<a, a>> : a \in 1..(MaxNodes + 1)}

\* pool.mark_dead(node) by a user of the pool; started counts the
\* operations on the pool
PoolFail(node) ==
  /\ started < MaxPoolOps
  /\ node \in pool.all_nodes
  /\ pool.dead_consecutive_failures[node] < MaxFailures
  /\ pool' = pool_mark_dead(pool, node, now, cfg.dead_backoff_factor,
                            cfg.max_dead_backoff)
  /\ started' = started + 1
  /\ UNCHANGED <<cfg, req, now, env, transport>>

\* pool.mark_live(node) by a user of the pool
PoolRevive(node) ==
  /\ started < MaxPoolOps
  /\ node \in pool.all_nodes
  /\ pool' = mark_live(pool, node)
  /\ started' = started + 1
  /\ UNCHANGED <<cfg, req, now, env, transport>>

\* pool.get() by a user of the pool
PoolTake ==
  /\ started < MaxPoolOps
  /\ \E g \in get(pool, cfg.selector, now) : pool' = g[2]
  /\ started' = started + 1
  /\ UNCHANGED <<cfg, req, now, env, transport>>

\* pool.add of every NodeConfig of a sniffed list
PoolAdd(configs) ==
  /\ started < MaxPoolOps
  /\ pool' = Merge(pool, configs)
  /\ started' = started + 1
  /\ env' = [env EXCEPT !.merged = configs, !.merges = @ + 1]
  /\ UNCHANGED <<cfg, req, now, transport>>

\* 4.2.5 all(): every Node the pool owns, alive or dead
all(p) == p.all_nodes

\* slip: only the alive nodes are closed
close_AliveOnly(p) == [n \in Range(p.alive_nodes) |-> 1]

\* Transport.close: for node in self.node_pool.all(): node.close(); the
\* result counts the close() calls per node
close(p) == [n \in all(p) |-> 1]

\* t.close() by the owner of the transport
Close ==
  /\ transport.state = "created"
  /\ transport' = [state |-> "closed", closed |-> close(pool)]
  /\ UNCHANGED <<cfg, pool, req, now, started, env>>

\* a pool of seed nodes that sniffed lists are merged into while it is used
InitAdd ==
  /\ \E n \in 1..MaxNodes :
       /\ pool = NewPool([i \in 1..n |-> i])
       /\ env = [test |-> "add", seeds |-> 1..n, merged |-> <<>>,
                 merges |-> 0]
  /\ cfg = DefaultCfg
  /\ req = [c \in {1} |-> [pc |-> "pool"]]
  /\ now = 0
  /\ started = 0
  /\ transport = Constructed

NextAdd ==
  \/ \E node \in 1..(MaxNodes + 1) : PoolFail(node)
  \/ \E node \in 1..(MaxNodes + 1) : PoolRevive(node)
  \/ \E configs \in SniffedMenu : PoolAdd(configs)
  \/ PoolTake
  \/ Close
  \/ Tick

SpecAdd == InitAdd /\ [][NextAdd]_vars

\* ------------------------------------------- the HTTP nodes (section 4.3)
\* the three Node classes
Backends == {"urllib3", "requests", "aiohttp"}

\* client_utils.DEFAULT, the "unspecified" sentinel of request_timeout
DEFAULT == "DEFAULT"

\* Python None as a timeout
NoneTimeout == "None"

\* the HTTP client waits without limit
NoTimeout == "unlimited"

\* a header value with a line feed in it, which no HTTP client sends
BadValue == "LF"

\* header names of the menus with the form a case-insensitive mapping keeps
Lower(name) ==
  CASE name = "Accept" -> "accept"
    [] name = "X-Id" -> "x-id"
    [] name = "Content-Type" -> "content-type"
    [] OTHER -> name

\* HttpHeaders.__setitem__: h[name] = value, the name compared without case
Put(h, name, value) ==
  [k \in DOMAIN h \cup {Lower(name)} |->
     IF k = Lower(name) THEN value ELSE h[k]]

\* HttpHeaders(pairs): a case-insensitive mapping of the pairs, a later
\* pair replacing an earlier one of the same name
RECURSIVE HttpHeaders(_)
HttpHeaders(pairs) ==
  IF pairs = <<>> THEN <<>>
  ELSE LET n == Len(pairs)
       IN Put(HttpHeaders(SubSeq(pairs, 1, n - 1)), pairs[n][1], pairs[n][2])

\* client_utils.normalize_headers: None or a mapping to HttpHeaders
normalize_headers(pairs) == HttpHeaders(pairs)

\* HttpHeaders.update(other)
update(h, other) ==
  [k \in DOMAIN h \cup DOMAIN other |->
     IF k \in DOMAIN other THEN other[k] ELSE h[k]]

\* bytes objects; Python None is NoData
Bytes(s) == <<"bytes", s>>

\* "not body": None and b"" are both false
Falsy(body) == body \in {NoData, Bytes(EmptyBytes)}

\* gzip.compress(body)
gzip(body) == <<"gzip", body>>

\* slip: the passed headers are laid under the node's defaults
MergeHeaders_DefaultsWin(defaults, headers) ==
  IF headers # <<>> THEN update(headers, defaults) ELSE defaults

\* request_headers = self.headers.copy(); if headers:
\* request_headers.update(headers)
MergeHeaders(defaults, headers) ==
  IF headers # <<>> THEN update(defaults, headers) ELSE defaults

\* slip: the node writes into the mapping it was handed
CallerHeadersAfter_Alias(headers, written) == written

\* the headers object of the caller after the node call: the node writes
\* into a mapping of its own (self.headers.copy(), HttpHeaders(headers or
\* ()), normalize_headers(self.headers)), never into the one it was handed
CallerHeadersAfter(headers, written) == headers

\* self.headers of the node after the call: the merge is made on a copy
StoredHeadersAfter(defaults, written) == defaults

\* slip: a body is compressed whenever compression is on
Compresses_Always(http_compress, body) == http_compress

\* if self._http_compress and body, on the body with b"" already filtered
Compresses(http_compress, body) == http_compress /\ ~Falsy(body)

\* urllib3: Timeout.from_float / Timeout(total=...); requests: timeout=...
\* None waits without limit
ClientTimeout(value) == IF value = NoneTimeout THEN NoTimeout ELSE value

\* aiohttp.ClientTimeout(total=...): total=0 means no timeout for aiohttp
AiohttpClientTimeout(total) == IF total = "0" THEN NoTimeout ELSE total

\* slip: "request_timeout or self.config.request_timeout", so None falls
\* back to the node's timeout
RequestTimeout_NoneFallsBack(backend, request_timeout, config_timeout) ==
  IF request_timeout \in {DEFAULT, NoneTimeout}
  THEN ClientTimeout(config_timeout) ELSE ClientTimeout(request_timeout)

\* the timeout the HTTP client applies. urllib3: kw["timeout"] only when
\* request_timeout is not DEFAULT, the pool's Timeout(total=
\* config.request_timeout) otherwise; requests: the conditional of
\* send_kwargs; aiohttp: the same conditional, then None turned into
\* total=0
RequestTimeout(backend, request_timeout, config_timeout) ==
  LET chosen == IF request_timeout # DEFAULT THEN request_timeout
                ELSE config_timeout
  IN IF backend = "aiohttp"
     THEN AiohttpClientTimeout(IF chosen # NoneTimeout THEN chosen ELSE "0")
     ELSE ClientTimeout(chosen)

\* what Node.perform_request hands to its HTTP client for the arguments a
NodeRequest(node, a) ==
  LET body == IF Falsy(a.body) THEN NoData ELSE a.body
      merged == MergeHeaders(node.headers, a.headers)
      compress == Compresses(node.http_compress, body)
  IN [method |-> a.method,
      target |-> a.target,
      body |-> IF compress THEN gzip(body) ELSE body,
      headers |-> IF compress THEN Put(merged, "content-encoding", "gzip")
                  ELSE merged,
      timeout |-> RequestTimeout(node.backend, a.request_timeout,
                                 node.request_timeout)]

\* the HTTP client cannot build a request with these headers
Rejected(headers) == \E k \in DOMAIN headers : headers[k] = BadValue

\* what the HTTP client raises for a request it cannot build
RejectedAs(backend) ==
  IF backend = "requests" THEN "InvalidHeader" ELSE "ValueError"

\* the request is built inside the try block: urllib3 and aiohttp build it
\* in pool.urlopen / session.request, requests in session.prepare_request
\* before the try
BuiltInTry(backend) == backend # "requests"

\* the outcome of Node.perform_request when its HTTP client is handed the
\* request sent and, unless the request is rejected, answers or raises x
NodeOutcome(backend, sent, x) ==
  IF Rejected(sent.headers)
  THEN IF BuiltInTry(backend) THEN Fails(RejectedAs(backend))
       ELSE Raises(RejectedAs(backend))
  ELSE IF x = "ok" THEN Response(200, EmptyBytes)
  ELSE Fails(x)

\* what a request can meet once it is sent
SendMenu == {"ok"} \cup ClientExceptions

\* header maps a caller passes, without and with a body
PassedHeadersMenu ==
  {<<>>,
   <<<<"accept", "text/plain">>>>,
   <<<<"X-Id", "1">>, <<"x-id", "2">>>>,
   <<<<"X-Id", BadValue>>>>}

\* default headers of a node (NodeConfig.headers)
DefaultHeadersMenu ==
  {<<<<"Accept", "application/json">>>>,
   <<<<"Accept", "application/json">>, <<"X-Id", "0">>>>}

\* request_timeout of a call and of a NodeConfig
RequestTimeoutMenu == {DEFAULT, NoneTimeout, "5"}

ConfigTimeoutMenu == {"10", NoneTimeout}

\* request_data after serialization
RequestDataMenu == {NoData, Bytes(EmptyBytes), Bytes(SomeBytes)}

\* the node of an attempt: the nodes take turns
NodeOf(attempt, nodes) == (attempt % Len(nodes)) + 1

\* perform_request up to the retry loop: ignore_status made a set, the
\* headers normalized once, the body serialized once; raw keeps the header
\* pairs as the caller wrote them, prepared the arguments as they were made
NodePrepare(headers, request_data, request_timeout) ==
  /\ req[1].pc = "idle"
  /\ LET pairs == IF request_data = NoData THEN headers
                  ELSE Append(headers, <<"Content-Type", "application/json">>)
         args == [method |-> "GET", target |-> "/",
                  body |-> request_data,
                  headers |-> normalize_headers(pairs),
                  request_timeout |-> request_timeout,
                  ignore_status |-> {}]
     IN req' = [req EXCEPT ![1] =
                  [pc |-> "loop", attempt |-> 0, raw |-> pairs,
                   prepared |-> args, args |-> args, calls |-> <<>>,
                   result |-> "none"]]
  /\ UNCHANGED <<cfg, pool, now, started, env, transport>>

\* one pass of the retry loop: node.perform_request(method, target,
\* body=request_data, headers=request_headers, ...) on the node whose turn
\* it is, and the handling of what it raises
NodeAttempt(x) ==
  /\ req[1].pc = "loop"
  /\ Rejected(req[1].args.headers) => x = "ok"
  /\ LET r == req[1]
         n == NodeOf(r.attempt, pool)
         node == pool[n]
         sent == NodeRequest(node, r.args)
         o == NodeOutcome(node.backend, sent, x)
         call == [node |-> n, passed |-> r.args, sent |-> sent,
                  outcome |-> o, rejected |-> Rejected(sent.headers)]
         r1 == [r EXCEPT !.calls = Append(@, call),
                  !.args.headers = CallerHeadersAfter(@, sent.headers)]
     IN /\ pool' = [pool EXCEPT ![n].headers =
                                  StoredHeadersAfter(@, sent.headers)]
        /\ req' = [req EXCEPT ![1] =
             IF Uncaught(o) THEN [r1 EXCEPT !.pc = "done", !.result = o.kind]
             ELSE IF NoError(o, r.args.ignore_status)
             THEN [r1 EXCEPT !.pc = "done", !.result = "return"]
             ELSE IF ShouldRetry(ErrorOf(o), cfg) /\ ~LastAttempt(r.attempt, cfg)
             THEN [r1 EXCEPT !.attempt = @ + 1]
             ELSE [r1 EXCEPT !.pc = "done", !.result = o.kind]]
  /\ UNCHANGED <<cfg, now, started, env, transport>>

\* two nodes of one Node class, with their own compression setting and
\* default headers, behind a transport that retries
InitNode ==
  /\ \E b \in Backends, c1 \in BOOLEAN, c2 \in BOOLEAN,
        d \in DefaultHeadersMenu, t \in ConfigTimeoutMenu :
       /\ pool = <<[backend |-> b, http_compress |-> c1,
                    headers |-> HttpHeaders(d), request_timeout |-> t],
                   [backend |-> b, http_compress |-> c2,
                    headers |-> HttpHeaders(d), request_timeout |-> t]>>
       /\ env = [test |-> "node", defaults |-> d]
  /\ cfg = [DefaultCfg EXCEPT !.max_retries = NodeRetries]
  /\ req = [c \in {1} |-> [pc |-> "idle"]]
  /\ now = 0
  /\ started = 0
  /\ transport = Constructed

NextNode ==
  \/ \E headers \in PassedHeadersMenu, request_data \in RequestDataMenu,
        request_timeout \in RequestTimeoutMenu :
       NodePrepare(headers, request_data, request_timeout)
  \/ \E x \in SendMenu : NodeAttempt(x)

SpecNode == InitNode /\ [][NextNode]_vars

\* ---------------------------------------------------------------- claims
Callers == DOMAIN req

Attempts(r) == Len(r.calls)

LastCall(r) == r.calls[Len(r.calls)]

LastOutcome(r) == LastCall(r).outcome

\* the errors of all attempts but the last one, in attempt order
PriorErrors(r) == [i \in 1..(Len(r.calls) - 1) |-> ErrorOf(r.calls[i].outcome)]

\* the call is past request preparation and has ended
LoopEnded(r) == r.pc = "done" /\ r.result # RaisedValueError

\* the call goes on to another attempt, the error of the last one recorded
GoesOn(r) ==
  /\ r.pc \in {"get", "node"}
  /\ r.attempt = Attempts(r)
  /\ r.errors = Append(PriorErrors(r), ErrorOf(LastOutcome(r)))

\* the call ended by raising the error of its last attempt
RaisedLast(r) ==
  /\ r.pc = "done"
  /\ r.result = Raised(ErrorOf(LastOutcome(r)), LastCall(r).node,
                       PriorErrors(r), Deserialize(LastOutcome(r).raw))

\* mark_dead raised while the failure of the latest attempt was handled
MarkDeadRaised(r) ==
  /\ r.md_errors # <<>>
  /\ r.md_errors[Len(r.md_errors)].attempt + 1 = Attempts(r)

\* the call ended with an error of mark_dead that the loop does not catch
MarkDeadEscaped(r) ==
  /\ r.pc = "done"
  /\ MarkDeadRaised(r)
  /\ ~Swallowed(r.md_errors[Len(r.md_errors)].type)

IsErrorResponse(o) ==
  o.kind = "response" /\ ~(200 <= o.status /\ o.status <= 299)

\* C1 as stated: every call that has ended made between 1 and
\* max_retries + 1 node calls, and with max_retries = 0 exactly one, a
\* retryable failure being raised at once.
C1_Original ==
  \A c \in Callers :
    req[c].pc = "done" =>
      /\ 1 <= Attempts(req[c])
      /\ Attempts(req[c]) <= cfg.max_retries + 1
      /\ cfg.max_retries = 0 =>
           /\ Attempts(req[c]) = 1
           /\ (~NoError(LastOutcome(req[c]), req[c].ignore_status)
               /\ ShouldRetry(ErrorOf(LastOutcome(req[c])), cfg))
                => RaisedLast(req[c])

\* C1 (amended): a call never makes more than max_retries + 1 node calls; a
\* call that got past request preparation and has ended made at least one;
\* with max_retries = 0 it made exactly one and a retryable failure of that
\* one attempt is raised at once, with no earlier errors.
C1_AttemptsBounded ==
  \A c \in Callers :
    /\ Attempts(req[c]) <= cfg.max_retries + 1
    /\ LoopEnded(req[c]) =>
         /\ 1 <= Attempts(req[c])
         /\ cfg.max_retries = 0 =>
              /\ Attempts(req[c]) = 1
              /\ (~NoError(LastOutcome(req[c]), req[c].ignore_status)
                  /\ ShouldRetry(ErrorOf(LastOutcome(req[c])), cfg))
                   => RaisedLast(req[c]) /\ req[c].result.errors = <<>>

C1_Witness ==
  \E c \in Callers :
    /\ LoopEnded(req[c])
    /\ cfg.max_retries >= 1
    /\ Attempts(req[c]) = cfg.max_retries + 1
    /\ req[c].result.kind = "raise"

\* C2: an error raised from the k-th attempt carries exactly the errors of
\* attempts 0..k-1, oldest first, and not itself; when all max_retries + 1
\* attempts failed there are max_retries of them. (An error of mark_dead
\* that the loop does not catch is not an error of an attempt, and an
\* exception that is not a TransportError passes through the loop as it is.)
C2_ErrorsAreEarlierAttempts ==
  \A c \in Callers :
    (/\ LoopEnded(req[c])
     /\ req[c].result.kind = "raise"
     /\ ~MarkDeadEscaped(req[c])
     /\ ~Uncaught(LastOutcome(req[c]))) =>
      /\ req[c].result.errors = PriorErrors(req[c])
      /\ Len(req[c].result.errors) = Attempts(req[c]) - 1
      /\ req[c].result.type = ErrorOf(LastOutcome(req[c])).type
      /\ req[c].result.status = ErrorOf(LastOutcome(req[c])).status
      /\ Attempts(req[c]) = cfg.max_retries + 1
           => Len(req[c].result.errors) = cfg.max_retries

C2_Witness ==
  \E c \in Callers :
    /\ LoopEnded(req[c])
    /\ req[c].result.kind = "raise"
    /\ Len(req[c].result.errors) = 2
    /\ req[c].result.errors[1] # req[c].result.errors[2]
    /\ Attempts(req[c]) = cfg.max_retries + 1

\* C3: a ConnectionTimeout is retried iff retry_on_timeout: without it the
\* timeout is raised from its attempt with the errors so far and the call is
\* over; with it the call goes on while attempts remain.
C3_TimeoutRetriedIffConfigured ==
  \A c \in Callers :
    (Attempts(req[c]) > 0 /\ LastOutcome(req[c]).kind = "ConnectionTimeout") =>
      /\ ~cfg.retry_on_timeout =>
           /\ RaisedLast(req[c])
           /\ req[c].result.type = "ConnectionTimeout"
           /\ Attempts(req[c]) = 1 => req[c].result.errors = <<>>
      /\ (cfg.retry_on_timeout /\ Attempts(req[c]) <= cfg.max_retries)
           => GoesOn(req[c])

C3_Witness ==
  \E c \in Callers :
    /\ ~cfg.retry_on_timeout
    /\ req[c].pc = "done"
    /\ req[c].result.type = "ConnectionTimeout"
    /\ Len(req[c].result.errors) >= 1

\* C4: a connection error other than a timeout, TLS errors included, is
\* retried on every attempt but the last, whatever retry_on_status and
\* retry_on_timeout are.
C4_ConnectionErrorAlwaysRetried ==
  \A c \in Callers :
    (/\ Attempts(req[c]) > 0
     /\ LastOutcome(req[c]).kind \in {"ConnectionError", "TlsError"}
     /\ Attempts(req[c]) <= cfg.max_retries) => GoesOn(req[c])

C4_Witness ==
  \E c \in Callers :
    /\ Attempts(req[c]) > 0
    /\ LastOutcome(req[c]).kind = "TlsError"
    /\ ~cfg.retry_on_timeout
    /\ req[c].pc = "get"
    /\ Attempts(req[c]) = 2

\* C5: an error response is retried iff its status is in retry_on_status: a
\* status outside it ends the call at once with the mapped ApiError and the
\* errors so far; nodes answering 404, 401, 403, 555 with retry_on_status
\* {401, 403, 404} and max_retries 5 give four attempts and ApiError 555 with
\* the three earlier errors.
C5_StatusRetriedIffListed ==
  \A c \in Callers :
    /\ (Attempts(req[c]) > 0 /\ IsErrorResponse(LastOutcome(req[c]))) =>
         /\ LastOutcome(req[c]).status \notin cfg.retry_on_status =>
              /\ RaisedLast(req[c])
              /\ req[c].result.type =
                   HTTP_STATUS_TO_ERROR(LastOutcome(req[c]).status)
              /\ req[c].result.status = LastOutcome(req[c]).status
         /\ (LastOutcome(req[c]).status \in cfg.retry_on_status
             /\ Attempts(req[c]) <= cfg.max_retries
             /\ ~MarkDeadEscaped(req[c])) => GoesOn(req[c])
    /\ (env.test = "retry_on_status" /\ LoopEnded(req[c])) =>
         /\ [i \in 1..Attempts(req[c]) |-> req[c].calls[i].node] = <<1, 2, 3, 4>>
         /\ req[c].result.kind = "raise"
         /\ req[c].result.type = "ApiError"
         /\ req[c].result.status = 555
         /\ [i \in 1..Len(req[c].result.errors) |-> req[c].result.errors[i].status]
              = <<404, 401, 403>>

C5_Witness ==
  \E c \in Callers :
    /\ env.test = "retry_on_status"
    /\ req[c].pc = "done"
    /\ req[c].result.status = 555
    /\ Attempts(req[c]) = 4

\* C6 as stated: an error response whose status is in ignore_status is
\* returned to the caller, not raised, and its node is marked live.
C6_IgnoredStatusReturned ==
  \A c \in Callers :
    (/\ req[c].pc = "done"
     /\ Attempts(req[c]) > 0
     /\ IsErrorResponse(LastOutcome(req[c]))
     /\ LastOutcome(req[c]).status \in req[c].ignore_status) =>
      /\ req[c].result.kind = "return"
      /\ req[c].result.status = LastOutcome(req[c]).status
      /\ req[c].lived = <<LastCall(req[c]).node>>

\* C7 as stated: a status in both retry_on_status and ignore_status is
\* retried while attempts remain, and the last attempt's response with that
\* status is returned rather than raised.
C7_RetriedThenReturned ==
  \A c \in Callers :
    (/\ Attempts(req[c]) > 0
     /\ IsErrorResponse(LastOutcome(req[c]))
     /\ LastOutcome(req[c]).status \in req[c].ignore_status
     /\ LastOutcome(req[c]).status \in cfg.retry_on_status) =>
      /\ Attempts(req[c]) <= cfg.max_retries => GoesOn(req[c])
      /\ req[c].pc = "done" =>
           /\ req[c].result.kind = "return"
           /\ req[c].result.status = LastOutcome(req[c]).status

\* every failure of the call so far is a response with a NOT_DEAD status
OnlyNotDeadFailures(r) ==
  \A i \in 1..Attempts(r) :
    ~NoError(r.calls[i].outcome, r.ignore_status) =>
      /\ r.calls[i].outcome.kind = "response"
      /\ r.calls[i].outcome.status \in NOT_DEAD_NODE_HTTP_STATUSES

DeadNodes == {d.node : d \in pool.dead_nodes}

\* C8: mark_dead is called only for the node of an attempt that failed with
\* a retried error whose status is not 400, 401, 403 or 404; a call whose
\* failures all carry such a status marks nothing, and on a fresh pool it
\* leaves every node alive.
C8_MarkDeadOnlyOnRetriedNodeFailure ==
  \A c \in Callers :
    /\ \A i \in 1..Len(req[c].marked) :
         LET m == req[c].marked[i]
         IN /\ m.attempt + 1 <= Attempts(req[c])
            /\ req[c].calls[m.attempt + 1].node = m.node
            /\ ~NoError(req[c].calls[m.attempt + 1].outcome,
                        req[c].ignore_status)
            /\ ShouldRetry(ErrorOf(req[c].calls[m.attempt + 1].outcome), cfg)
            /\ ErrorOf(req[c].calls[m.attempt + 1].outcome).status
                 \notin NOT_DEAD_NODE_HTTP_STATUSES
    /\ (req[c].pc # "idle" /\ OnlyNotDeadFailures(req[c])) =>
         /\ req[c].marked = <<>>
         /\ started = 1 =>
              /\ pool.dead_nodes = {}
              /\ Range(pool.alive_nodes) = pool.all_nodes

C8_Witness ==
  \E c \in Callers :
    /\ LoopEnded(req[c])
    /\ Attempts(req[c]) >= 2
    /\ \A i \in 1..Attempts(req[c]) : req[c].calls[i].outcome.status = 404
    /\ req[c].marked = <<>>
    /\ pool.dead_nodes = {}

\* the error a finished call raised
RaisedError(r) == [type |-> r.result.type, status |-> r.result.status]

\* C9: an attempt that fails with an error that is not retried leaves the
\* node pool as it was, its node neither marked dead nor marked live; a 404
\* from the only node leaves the pool with 1 alive / 0 dead.
C9_NonRetriedErrorLeavesPool ==
  /\ [][\A c \in Callers :
          (/\ req[c].pc = "node"
           /\ req'[c].pc = "done"
           /\ req'[c].result.kind = "raise"
           /\ ~ShouldRetry(ErrorOf(LastOutcome(req'[c])), cfg)) =>
            /\ pool' = pool
            /\ req'[c].marked = req[c].marked
            /\ req'[c].lived = req[c].lived]_vars
  /\ [](\A c \in Callers :
          (env.test = "head_response_false" /\ LoopEnded(req[c])) =>
            /\ req[c].result.type = "NotFoundError"
            /\ pool.alive_nodes = <<1>>
            /\ pool.dead_nodes = {})

C9_Witness ==
  \E c \in Callers :
    /\ LoopEnded(req[c])
    /\ req[c].result.kind = "raise"
    /\ req[c].result.status = 502
    /\ 502 \notin cfg.retry_on_status
    /\ Attempts(req[c]) >= 2
    /\ req[c].marked = <<>>
    /\ req[c].lived = <<>>
    /\ pool.dead_nodes = {}

\* every attempt of the call failed with ConnectionError
AllConnectionErrors(r) ==
  /\ LoopEnded(r)
  /\ r.result.kind = "raise"
  /\ \A i \in 1..Attempts(r) : r.calls[i].outcome = Raises("ConnectionError")

AttemptedNodes(r) == {r.calls[i].node : i \in 1..Attempts(r)}

\* C10 as stated: after a call in which every attempt fails with
\* ConnectionError every attempted node is in the dead queue and no node is
\* alive.
C10_Original ==
  \A c \in Callers :
    AllConnectionErrors(req[c]) =>
      /\ AttemptedNodes(req[c]) \subseteq DeadNodes
      /\ pool.alive_nodes = <<>>

\* C10 (amended): a last attempt that fails with a retried node failure
\* marks its node dead before raising, so the node is in the dead queue and
\* not alive when the error is raised; after a call in which every attempt
\* failed with ConnectionError, with no time passing during the call and no
\* more nodes than attempts, every attempted node is in the dead queue and
\* no node is alive (1 seed, max_retries 3: 4 attempts, 0 alive / 1 dead;
\* 2 seeds: 0 alive / 2 dead).
C10_LastFailureMarksDead ==
  \A c \in Callers :
    /\ (/\ LoopEnded(req[c])
        /\ req[c].result.kind = "raise"
        /\ ShouldRetry(RaisedError(req[c]), cfg)
        /\ req[c].result.status \notin NOT_DEAD_NODE_HTTP_STATUSES) =>
         /\ req[c].marked # <<>>
         /\ req[c].marked[Len(req[c].marked)] =
              [attempt |-> cfg.max_retries, node |-> req[c].result.node]
         /\ req[c].result.node \in DeadNodes
         /\ req[c].result.node \notin Range(pool.alive_nodes)
    /\ (/\ AllConnectionErrors(req[c])
        /\ now = req[c].t0
        /\ Cardinality(pool.all_nodes) <= cfg.max_retries + 1) =>
         /\ AttemptedNodes(req[c]) \subseteq DeadNodes
         /\ pool.alive_nodes = <<>>
    /\ (/\ env.test \in {"fail_after_x_retries", "marked_as_dead"}
        /\ LoopEnded(req[c])
        /\ now = req[c].t0) =>
         /\ Attempts(req[c]) = 4
         /\ Len(req[c].result.errors) = 3
         /\ pool.alive_nodes = <<>>
         /\ DeadNodes = pool.all_nodes
         /\ Cardinality(pool.dead_nodes) = Cardinality(pool.all_nodes)

C10_Witness ==
  \E c \in Callers :
    /\ env.test = "marked_as_dead"
    /\ AllConnectionErrors(req[c])
    /\ now = req[c].t0
    /\ Attempts(req[c]) = 4
    /\ Cardinality(pool.dead_nodes) = 2
    /\ pool.alive_nodes = <<>>

\* the call returned the response of its last attempt
ReturnedOk(r) == LoopEnded(r) /\ r.result.kind = "return"

\* C11: a call returns only after mark_live on the node that served the
\* successful attempt: once it has returned, that node has a zero failure
\* count, is in alive_nodes and is not in the dead queue, also when it was a
\* dead node resurrected by force; the step that returns leaves every other
\* dead node in the dead queue with its failure count.
C11_SuccessMarksLive ==
  /\ [](\A c \in Callers :
          ReturnedOk(req[c]) =>
            /\ req[c].result.node = LastCall(req[c]).node
            /\ req[c].lived = <<req[c].result.node>>
            /\ pool.dead_consecutive_failures[req[c].result.node] = 0
            /\ req[c].result.node \in Range(pool.alive_nodes)
            /\ req[c].result.node \notin DeadNodes)
  /\ [][\A c \in Callers :
          (req[c].pc = "node" /\ ReturnedOk(req'[c])) =>
            \A d \in pool.dead_nodes :
              d.node # req[c].node =>
                /\ d \in pool'.dead_nodes
                /\ d.node \notin Range(pool'.alive_nodes)
                /\ pool'.dead_consecutive_failures[d.node] = d.failures]_vars

\* two nodes failed and were marked dead, none was alive, the first came
\* back by force before its due time and served the request
C11_Witness ==
  \E c \in Callers :
    /\ ReturnedOk(req[c])
    /\ Attempts(req[c]) = 3
    /\ Len(req[c].marked) = 2
    /\ req[c].calls[1].node = req[c].result.node
    /\ req[c].calls[2].node # req[c].result.node
    /\ now = req[c].t0
    /\ pool.alive_nodes = <<req[c].result.node>>
    /\ DeadNodes = {req[c].calls[2].node}
    /\ pool.dead_consecutive_failures[req[c].calls[2].node] = 1

\* C12 as stated: an error raised by mark_dead while a retried failure is
\* handled never reaches the caller; the loop goes on to the next attempt
\* or, after the last attempt, raises the error of that attempt.
C12_MarkDeadErrorSwallowed ==
  \A c \in Callers :
    MarkDeadRaised(req[c]) =>
      IF LastAttempt(Attempts(req[c]) - 1, cfg)
      THEN RaisedLast(req[c])
      ELSE GoesOn(req[c])

\* C13 as stated: a HEAD request answered with a 2xx status returns
\* (meta, None), the deserializer not being invoked whatever bytes the node
\* returned.
C13_HeadReturnsNone ==
  \A c \in Callers :
    (req[c].method = "HEAD" /\ ReturnedOk(req[c])) =>
      /\ 200 <= req[c].result.status /\ req[c].result.status <= 299
      /\ req[c].result.data = NoData

\* the call was made with a structured body and no Content-Type header
BodyWithoutContentType(r) ==
  r.pc # "idle" /\ r.body = "structured" /\ ~r.content_type

\* C14: a call with a structured body and no Content-Type header ends with
\* the ValueError of request preparation: no node was obtained from the
\* pool, no node was called, marked dead or marked live, and the step that
\* raises leaves the pool (alive set, dead queue, failure counts, cursor) as
\* it was.
C14_MissingContentTypeFailsEarly ==
  /\ [](\A c \in Callers :
          BodyWithoutContentType(req[c]) =>
            /\ req[c].pc = "done"
            /\ req[c].result = RaisedValueError
            /\ req[c].node = 0
            /\ req[c].calls = <<>>
            /\ req[c].marked = <<>>
            /\ req[c].lived = <<>>)
  /\ [][\A c \in Callers :
          (req[c].pc = "idle" /\ BodyWithoutContentType(req'[c])) =>
            pool' = pool]_vars

C14_Witness ==
  \E c \in Callers :
    /\ BodyWithoutContentType(req[c])
    /\ req[c].result = RaisedValueError
    /\ started = 1
    /\ pool = NewPool(pool.alive_nodes)

\* the mark_dead of the attempt before the current one went through
JustKilled(r) ==
  /\ r.marked # <<>>
  /\ r.marked[Len(r.marked)].attempt + 1 = r.attempt
  /\ ~MarkDeadRaised(r)

KilledNode(r) == r.marked[Len(r.marked)].node

\* C15 as stated: the get() that follows a mark_dead(node) of the same call
\* never returns that node, unless it is the only node of the pool.
C15_Original ==
  \A c \in Callers :
    (req[c].pc = "node" /\ JustKilled(req[c])) =>
      \/ req[c].node # KilledNode(req[c])
      \/ Cardinality(pool.all_nodes) = 1

\* C15 (amended): the get() that follows a mark_dead(node) of the same call
\* returns that node only if the node is in the dead queue and either its
\* backoff has elapsed by then (due_time <= now) or no node is alive, no
\* dead node is due and the node has the smallest due_time of the dead
\* queue, as when it is the only node of the pool.
C15_NextGetAvoidsKilled ==
  [][\A c \in Callers :
       (/\ req[c].pc = "get"
        /\ req'[c].pc = "node"
        /\ JustKilled(req[c])
        /\ req'[c].node = KilledNode(req[c])) =>
         \E d \in pool.dead_nodes :
           /\ d.node = KilledNode(req[c])
           /\ \/ d.due <= now
              \/ /\ pool.alive_nodes = <<>>
                 /\ \A d2 \in pool.dead_nodes : d2.due > now /\ d.due <= d2.due]_vars

\* with two nodes, the attempt after a mark_dead goes to the other node
C15_Witness ==
  \E c \in Callers :
    /\ req[c].pc = "node"
    /\ JustKilled(req[c])
    /\ req[c].node # KilledNode(req[c])
    /\ KilledNode(req[c]) \in DeadNodes
    /\ Cardinality(pool.all_nodes) = 2

\* no call is in flight
Quiescent == \A c \in Callers : req[c].pc \in {"idle", "done"}

\* how many times node n is in the alive set and in the dead queue
Occurrences(n) ==
  Cardinality({i \in 1..Len(pool.alive_nodes) : pool.alive_nodes[i] = n})
    + Cardinality({d \in pool.dead_nodes : d.node = n})

\* C16 as stated: with no call in flight, every node of all_nodes is in
\* exactly one of alive_nodes and the dead queue, once, also after a call
\* whose force-resurrected node failed with an error that is not retried.
C16_NodesPartitioned ==
  Quiescent => \A n \in pool.all_nodes : Occurrences(n) = 1

\* no node is alive and no dead node is due yet
NoneAlive == pool.alive_nodes = <<>> /\ \A d \in pool.dead_nodes : d.due > now

\* C17: get() always returns a node of the pool; when no node is alive and
\* the dead queue is not empty, it is the dead node with the smallest
\* due_time although that time is in the future, taken out of the dead
\* queue, not put into the alive set and with its failure count kept; a
\* single-node pool always yields its node, dead or not (one seed that
\* always fails: 4 attempts on the same node).
C17_ForcedResurrection ==
  /\ [](\A c \in Callers :
          /\ req[c].pc = "node" => req[c].node \in pool.all_nodes
          /\ (env.test = "fail_after_x_retries" /\ LoopEnded(req[c])) =>
               /\ Attempts(req[c]) = 4
               /\ AttemptedNodes(req[c]) = pool.all_nodes)
  /\ [][\A c \in Callers :
          (/\ req[c].pc = "get"
           /\ req'[c].pc = "node"
           /\ NoneAlive
           /\ pool.dead_nodes # {}) =>
            \E d \in pool.dead_nodes :
              /\ d.node = req'[c].node
              /\ \A d2 \in pool.dead_nodes : d.due <= d2.due
              /\ pool'.dead_nodes = pool.dead_nodes \ {d}
              /\ pool'.alive_nodes = <<>>
              /\ d.failures >= 1
              /\ pool'.dead_consecutive_failures
                   = pool.dead_consecutive_failures
              /\ pool.dead_consecutive_failures[d.node] = d.failures]_vars

\* both nodes are dead and not yet due; the one that died first is tried
\* again
C17_Witness ==
  \E c \in Callers :
    /\ req[c].pc = "node"
    /\ req[c].attempt = 2
    /\ req[c].node = req[c].calls[1].node
    /\ req[c].node # req[c].calls[2].node
    /\ pool.alive_nodes = <<>>
    /\ DeadNodes = {req[c].calls[2].node}
    /\ pool.dead_consecutive_failures[req[c].node] = 1
    /\ \A d \in pool.dead_nodes : d.due > now

\* C18: a mark_dead on a node computes, from the incremented failure
\* count, a backoff that is positive, at most max_dead_backoff and not
\* smaller than the backoff of the previous mark_dead on that node when no
\* mark_live came in between; the node's dead-queue entry is due that long
\* after now.
C18_BackoffMonotoneCapped ==
  [][\A c \in Callers : \A n \in pool.all_nodes :
       pool'.dead_consecutive_failures[n]
           = pool.dead_consecutive_failures[n] + 1 =>
         /\ req'[c].timeouts[n] >= req[c].timeouts[n]
         /\ req'[c].timeouts[n] > 0
         /\ req'[c].timeouts[n] <= cfg.max_dead_backoff
         /\ \E d \in pool'.dead_nodes :
              /\ d.node = n
              /\ d.failures = pool'.dead_consecutive_failures[n]
              /\ d.due = now + req'[c].timeouts[n]]_vars

\* a third consecutive failure: 60, 120, then 240 capped at 200
C18_Witness ==
  \E c \in Callers : \E n \in pool.all_nodes :
    /\ pool.dead_consecutive_failures[n] = 3
    /\ cfg.dead_backoff_factor = 1
    /\ cfg.max_dead_backoff = 200
    /\ req[c].timeouts[n] = 200

\* how many of the get() calls i..j of the history returned node n
Returns(gets, i, j, n) == Cardinality({k \in i..j : gets[k] = n})

\* C19: round-robin, alive set unchanged over the recorded get() calls:
\* every returned node is alive and, over any K consecutive calls, each of
\* the M alive nodes is returned floor(K/M) or ceil(K/M) times.
C19_RoundRobinFair ==
  \A c \in Callers :
    (cfg.selector = "round_robin" /\ req[c].gets # <<>>) =>
      LET gets == req[c].gets
          M == Len(pool.alive_nodes)
      IN /\ M > 0
         /\ Range(gets) \subseteq Range(pool.alive_nodes)
         /\ \A i \in 1..Len(gets) : \A j \in i..Len(gets) :
              \A n \in Range(pool.alive_nodes) :
                Returns(gets, i, j, n)
                  \in {(j - i + 1) \div M, (j - i + 1 + M - 1) \div M}

\* three consecutive calls on two alive nodes, starting at the second
C19_Witness ==
  \E c \in Callers :
    /\ cfg.selector = "round_robin"
    /\ Len(pool.alive_nodes) = 2
    /\ Len(req[c].gets) >= 3
    /\ req[c].gets[1] = pool.alive_nodes[2]
    /\ Returns(req[c].gets, 1, 3, pool.alive_nodes[2]) = 2
    /\ Returns(req[c].gets, 1, 3, pool.alive_nodes[1]) = 1

\* the callers whose get() has selected its node and advanced the cursor
Served == {c \in Callers : req[c].pc \in {"release", "done"}}

\* C20: round-robin, N concurrent get() calls on M alive nodes: at any
\* moment the k calls that have selected hold the offsets cursor, cursor+1,
\* ..., cursor+k-1 (mod M), one each in some order, each got the node at
\* its offset, and the cursor has advanced k times; no two calls read the
\* same cursor value.
C20_ConcurrentGetsSerialized ==
  LET M == Len(pool.alive_nodes)
      k == Cardinality(Served)
  IN /\ \E f \in [Served -> 0..(MaxCallers - 1)] :
          /\ \A c \in Served : f[c] < k
          /\ \A c, e \in Served : f[c] = f[e] => c = e
          /\ \A c \in Served :
               /\ req[c].offset = (env.cursor0 + f[c]) % M
               /\ req[c].got = pool.alive_nodes[req[c].offset + 1]
     /\ pool.cursor = (env.cursor0 + k) % M

\* three calls on two nodes are over: offsets c, c+1, c (mod 2)
C20_Witness ==
  /\ Cardinality(Callers) = 3
  /\ \A c \in Callers : req[c].pc = "done"
  /\ Len(pool.alive_nodes) = 2
  /\ env.cursor0 = 1
  /\ {req[c].got : c \in Callers} = {1, 2}
  /\ pool.cursor = 0

\* the sniffing keywords of the call Transport(...)
SniffKw == transport.kwargs \cap SniffKeywords

\* the call Transport(...) has ended, with a Transport or with an error
Built == transport.state # "none"

Created == transport.state = "created"

\* threads inside an invocation of the sniff_callback
Sniffing == {c \in Callers : req[c].pc = "sniffing"}

\* C21 as stated, on the transport of test_threading_test (the three
\* triggers and a callback): the transport exists, at most one invocation of
\* the callback is in progress at any time, and no trigger waits for one.
C21_SingleFlight ==
  (Built /\ SniffKw = SniffKeywords)
    => /\ Created
       /\ Cardinality(Sniffing) <= 1
       /\ \A c \in Callers : req[c].pc # "waiting"

\* the error of the sniff_callback, raised to the caller of perform_request
SniffError ==
  [kind |-> "raise", type |-> "TransportError", status |-> NoStatus,
   errors |-> <<>>]

\* C22 as stated, on the transport of
\* test_sniff_error_resets_lock_and_last_sniffed_at (sniff_before_requests
\* and a callback that raises): the transport exists and its first
\* perform_request ends by raising the error of the callback, which was
\* invoked once.
C22_SniffErrorReachesCaller ==
  (Built /\ SniffKw = {"sniff_before_requests", "sniff_callback"}
         /\ transport.callback_raises)
    => /\ Created
       /\ \A c \in Callers :
            req[c].pc = "done"
              => /\ req[c].result = SniffError
                 /\ Len(transport.sniff_calls) = 1

\* the place of a node in the pool: alive or dead, its dead-queue entry and
\* its failure count
Standing(p, n) ==
  [alive |-> Cardinality({i \in 1..Len(p.alive_nodes) :
                              p.alive_nodes[i] = n}),
   dead |-> {d \in p.dead_nodes : d.node = n},
   failures |-> p.dead_consecutive_failures[n]]

C24_SniffOnStartOnce ==
  (Built /\ SniffKw = {"sniff_on_start", "sniff_callback"})
    => /\ Created
       /\ transport.sniff_calls = <<SniffOptions(TRUE)>>

\* the call has a node, or has ended
HasNode(r) == r.pc \in {"node", "done"}

\* C25 as stated: given sniff_before_requests and a callback, the transport
\* exists, the construction does not invoke the callback, and the first
\* request invokes it once, with is_initial_sniff = false, before it has a
\* node.
C25_SniffBeforeRequests ==
  (Built /\ SniffKw = {"sniff_before_requests", "sniff_callback"})
    => /\ Created
       /\ started = 0 => transport.sniff_calls = <<>>
       /\ \A c \in Callers :
            (started = 1 /\ HasNode(req[c]) /\ ~transport.callback_raises)
              => transport.sniff_calls = <<SniffOptions(FALSE)>>

\* every attempt of the call succeeded
AllSucceeded(r) ==
  \A i \in 1..Attempts(r) : NoError(r.calls[i].outcome, r.ignore_status)

\* the call raised InternalServerError for a 500 that is not retried
Raised500(r) ==
  /\ r.pc = "done"
  /\ r.result.kind = "raise"
  /\ r.result.type = "InternalServerError"
  /\ 500 \notin cfg.retry_on_status

\* C26 as stated: given sniff_on_node_failure and a callback, the transport
\* exists; a request whose attempts all succeed does not invoke the callback;
\* one that raises InternalServerError for a 500 that is not retried
\* invokes it exactly once, with is_initial_sniff = false.
C26_SniffOnNodeFailure ==
  (Built /\ SniffKw = {"sniff_on_node_failure", "sniff_callback"})
    => /\ Created
       /\ \A c \in Callers :
            /\ (ReturnedOk(req[c]) /\ AllSucceeded(req[c]))
                 => transport.sniff_calls = <<>>
            /\ (started = 1 /\ Raised500(req[c]))
                 => transport.sniff_calls = <<SniffOptions(FALSE)>>

\* C27 as stated: given sniff_on_node_failure and a callback that raises,
\* the transport exists; every retried node failure invokes the callback,
\* its error is not raised to the caller, the node is still marked dead and
\* the call goes on: one that ends after a success returns it.
C27_SniffErrorSwallowed ==
  (Built /\ SniffKw = {"sniff_on_node_failure", "sniff_callback"}
         /\ transport.callback_raises)
    => /\ Created
       /\ \A c \in Callers :
            /\ Len(transport.sniff_calls) >= Len(req[c].marked)
            /\ req[c].pc = "done" => req[c].result # SniffError
            /\ (LoopEnded(req[c]) /\ NoError(LastOutcome(req[c]),
                                             req[c].ignore_status))
                 => ReturnedOk(req[c])

\* C28 as stated: the call Transport(...) gives a transport exactly when a
\* sniff_callback is passed together with at least one trigger, or neither
\* is passed; otherwise it raises and gives none.
C28_SniffConfigValidated ==
  Built =>
    (Created <=> ("sniff_callback" \in SniffKw
                    <=> SniffKw \cap SniffTriggers # {}))

\* C29 as stated, in its finite part, on the transport of
\* test_threading_test (the three triggers, a callback that returns the
\* seeds): the transport exists, no call is left waiting for the sniff
\* lock, and all_nodes stays the set of the seeds.
C29_NoDeadlock ==
  (Built /\ SniffKw = SniffKeywords /\ ~transport.callback_raises)
    => /\ Created
       /\ pool.all_nodes = Range(env.node_configs)
       /\ Quiescent => Sniffing = {}

\* the attempts whose node call ended with an exception handed on as it is
Reraised(r) ==
  {i \in 1..Attempts(r) :
     /\ "cause" \in DOMAIN r.calls[i].outcome
     /\ r.calls[i].outcome.cause \in RERAISE_EXCEPTIONS}

\* C30: a recursion-limit or cancellation exception raised during
\* Node.perform_request is not turned into a ConnectionError by the node and
\* is neither swallowed nor retried by the transport: the attempt is the last
\* one of the call, the call ends by raising that very exception, and the
\* node of the attempt is marked neither dead nor live.
C30_ReraisePropagates ==
  \A c \in Callers : \A i \in Reraised(req[c]) :
    LET r == req[c]
        call == r.calls[i]
    IN /\ call.outcome.kind = call.outcome.cause
       /\ i = Attempts(r)
       /\ r.pc = "done"
       /\ r.result = Propagated(call.outcome.cause, call.node)
       /\ \A k \in 1..Len(r.marked) : r.marked[k].attempt # i - 1
       /\ r.lived = <<>>

\* the second attempt of a call, after a retried 502, was cancelled
C30_Witness ==
  \E c \in Callers :
    /\ req[c].pc = "done"
    /\ Attempts(req[c]) = 2
    /\ 2 \in Reraised(req[c])
    /\ req[c].result.type = "CancelledError"
    /\ req[c].marked = <<[attempt |-> 0, node |-> 1]>>

\* C31: Transport.close() calls close() on every node the pool owns at that
\* moment, alive, dead or added after construction, and on nothing else.
C31_CloseClosesAllNodes ==
  [][(transport.state = "created" /\ transport'.state = "closed")
       => /\ DOMAIN transport'.closed = pool.all_nodes
          /\ \A n \in pool.all_nodes : transport'.closed[n] >= 1
          /\ pool' = pool]_vars

\* a transport was closed while it had an alive node, a dead node and a node
\* that was not among the seeds
C31_Witness ==
  /\ transport.state = "closed"
  /\ pool.alive_nodes # <<>>
  /\ pool.dead_nodes # {}
  /\ pool.all_nodes \ env.seeds # {}
  /\ DOMAIN transport.closed = pool.all_nodes

\* the entries of node n in the dead queue
DeadEntries(p, n) == {d \in p.dead_nodes : d.node = n}

\* how often node n stands in the alive list
AliveCount(p, n) ==
  Cardinality({i \in 1..Len(p.alive_nodes) : p.alive_nodes[i] = n})

MarkedDeadStep(c, n) ==
  /\ req[c].pc = "node"
  /\ req[c].node = n
  /\ Len(req'[c].marked) = Len(req[c].marked) + 1
  /\ req'[c].md_errors = req[c].md_errors

\* the step is a successful attempt of call c on node n, confirmed live
MarkedLiveStep(c, n) ==
  /\ req[c].pc = "node"
  /\ req[c].node = n
  /\ req'[c].lived = Append(req[c].lived, n)
  /\ req'[c].result.kind = "return"

\* C37: the consecutive-failure count of a node goes down only in the
\* mark_live of a successful attempt on that node, and then to zero; a
\* get(), which resurrects due nodes and, when none is alive, the dead node
\* due first, leaves every count as it is; so the mark_dead of a resurrected
\* node that fails again gives it the count it had plus one, in its
\* dead-queue entry too.
C37_CountResetOnlyByMarkLive ==
  [][\A n \in pool.all_nodes :
       /\ pool'.dead_consecutive_failures[n]
            < pool.dead_consecutive_failures[n] =>
             /\ pool'.dead_consecutive_failures[n] = 0
             /\ \E c \in Callers : MarkedLiveStep(c, n)
       /\ (\E c \in Callers : req[c].pc = "get") =>
             pool'.dead_consecutive_failures[n]
               = pool.dead_consecutive_failures[n]
       /\ (\E c \in Callers : MarkedDeadStep(c, n)) =>
             /\ pool'.dead_consecutive_failures[n]
                  = pool.dead_consecutive_failures[n] + 1
             /\ \E d \in pool'.dead_nodes :
                  /\ d.node = n
                  /\ d.failures = pool.dead_consecutive_failures[n] + 1]_vars

\* one call whose first and third attempt failed on the same node, which
\* was resurrected in between: marked dead twice, count 2
C37_Witness ==
  \E c \in Callers :
    /\ Len(req[c].calls) >= 3
    /\ req[c].calls[1].node = req[c].calls[3].node
    /\ Len(req[c].marked) >= 3
    /\ req[c].md_errors = <<>>
    /\ pool.dead_consecutive_failures[req[c].calls[1].node] = 2

\* attempt i of call r failed and was retried: neither a success nor an
\* error that left the loop
RetriedAttempt(r, i) ==
  LET o == r.calls[i].outcome
  IN /\ ~Uncaught(o)
     /\ ~NoError(o, r.ignore_status)
     /\ ShouldRetry(ErrorOf(o), cfg)

\* C39: with max_retries >= 0 a call never reaches the end of the retry loop:
\* at the loop head the attempt number is at most max_retries, and a call
\* that is over has either returned the response and data of its last
\* attempt, a successful one, or raised; every attempt before the last one
\* was a failure that was retried, so nothing is attempted after a success
\* or after an error was raised.
C39_ReturnsOrRaises ==
  \A c \in Callers :
    cfg.max_retries >= 0 =>
    /\ req[c].pc = "get" => req[c].attempt <= cfg.max_retries
    /\ req[c].pc = "done" =>
         /\ req[c].result.kind \in {"return", "raise"}
         /\ req[c].result.kind = "return" =>
              /\ NoError(LastOutcome(req[c]), req[c].ignore_status)
              /\ req[c].result = Returned(LastOutcome(req[c]),
                                          LastCall(req[c]).node)
         /\ \A i \in 1..(Attempts(req[c]) - 1) : RetriedAttempt(req[c], i)

\* a call that returned on its last allowed attempt, after max_retries
\* retried failures
C39_Witness ==
  \E c \in Callers :
    /\ req[c].pc = "done"
    /\ req[c].result.kind = "return"
    /\ cfg.max_retries >= 1
    /\ Attempts(req[c]) = cfg.max_retries + 1

\* the Node.perform_request calls made so far
NodeCalls == IF req[1].pc = "idle" THEN <<>> ELSE req[1].calls

\* the exception the HTTP client raised in a failed node call
LowLevel(o) == IF "cause" \in DOMAIN o THEN o.cause ELSE o.kind

\* C32: in each backend a node call in which the HTTP client raised
\* something that is not a re-raise exception raises ConnectionTimeout for a
\* timeout, TlsError for a TLS failure and ConnectionError for anything
\* else, and nothing of another type.
C32_FailuresTranslated ==
  \A i \in 1..Len(NodeCalls) :
    LET o == NodeCalls[i].outcome
    IN (o.kind # "response" /\ LowLevel(o) \notin RERAISE_EXCEPTIONS) =>
         o.kind = IF LowLevel(o) = "ReadTimeoutError" THEN "ConnectionTimeout"
                  ELSE IF LowLevel(o) = "SSLError" THEN "TlsError"
                  ELSE "ConnectionError"

\* C33: in each backend a b"" body is sent as no body, with no
\* Content-Encoding header, exactly as a None body would be; a non-empty
\* body is sent gzip-compressed with Content-Encoding: gzip when the node
\* has http_compress on, and unchanged without that header when it is off.
C33_EmptyBodyAndGzip ==
  \A i \in 1..Len(NodeCalls) :
    LET a == NodeCalls[i].passed
        s == NodeCalls[i].sent
        node == pool[NodeCalls[i].node]
    IN /\ Falsy(a.body) =>
            /\ s.body = NoData
            /\ "content-encoding" \notin DOMAIN s.headers
            /\ s = NodeRequest(node, [a EXCEPT !.body = NoData])
       /\ (~Falsy(a.body) /\ node.http_compress) =>
            /\ s.body = gzip(a.body)
            /\ "content-encoding" \in DOMAIN s.headers
            /\ s.headers["content-encoding"] = "gzip"
       /\ (~Falsy(a.body) /\ ~node.http_compress) =>
            /\ s.body = a.body
            /\ "content-encoding" \notin DOMAIN s.headers

\* b"" handed to a node with http_compress on: sent without a body
C33_Witness ==
  \E i \in 1..Len(NodeCalls) :
    /\ NodeCalls[i].passed.body = Bytes(EmptyBytes)
    /\ pool[NodeCalls[i].node].http_compress
    /\ NodeCalls[i].sent.body = NoData

\* the header pairs have one of name k, compared without case
HasName(pairs, k) == \E i \in 1..Len(pairs) : Lower(pairs[i][1]) = k

\* the value of the last of the pairs named k
LastValue(pairs, k) ==
  LET i == CHOOSE i \in 1..Len(pairs) :
             /\ Lower(pairs[i][1]) = k
             /\ \A j \in (i + 1)..Len(pairs) : Lower(pairs[j][1]) # k
  IN pairs[i][2]

\* the names of the header pairs, without case
Names(pairs) == {Lower(pairs[i][1]) : i \in 1..Len(pairs)}

\* C34: in each backend the headers sent, Content-Encoding aside, are those
\* the caller passed and, for every other name, the node's defaults: a
\* name in both, whatever its case on either side, is sent once with the
\* caller's value; and the default headers the node stores stay as they
\* were configured.
C34_CallerHeadersWin ==
  /\ \A i \in 1..Len(NodeCalls) :
       LET s == NodeCalls[i].sent
           passed == req[1].raw
       IN /\ DOMAIN s.headers \ {"content-encoding"}
               = Names(passed) \cup Names(env.defaults)
          /\ \A k \in Names(passed) : s.headers[k] = LastValue(passed, k)
          /\ \A k \in Names(env.defaults) \ Names(passed) :
               s.headers[k] = LastValue(env.defaults, k)
  /\ \A n \in 1..Len(pool) :
       /\ DOMAIN pool[n].headers = Names(env.defaults)
       /\ \A k \in Names(env.defaults) :
            pool[n].headers[k] = LastValue(env.defaults, k)

\* the node's default is "Accept: application/json", the caller passed
\* "accept: text/plain": text/plain is sent
C34_Witness ==
  \E i \in 1..Len(NodeCalls) :
    /\ HasName(env.defaults, "accept")
    /\ HasName(req[1].raw, "accept")
    /\ LastValue(env.defaults, "accept") # LastValue(req[1].raw, "accept")
    /\ NodeCalls[i].sent.headers["accept"] = "text/plain"
    /\ pool[NodeCalls[i].node].headers["accept"] = "application/json"

\* C35: in each backend the timeout the HTTP client applies is the node's
\* configured request_timeout when the call passes DEFAULT, and the call's
\* own value otherwise; None, from the call or, with DEFAULT, from the
\* configuration, means no timeout.
C35_TimeoutApplied ==
  \A i \in 1..Len(NodeCalls) :
    LET a == NodeCalls[i].passed
        node == pool[NodeCalls[i].node]
        chosen == IF a.request_timeout = DEFAULT THEN node.request_timeout
                  ELSE a.request_timeout
    IN NodeCalls[i].sent.timeout
         = IF chosen = NoneTimeout THEN NoTimeout ELSE chosen

\* request_timeout=None on a node configured with 10 seconds: no timeout
C35_Witness ==
  \E i \in 1..Len(NodeCalls) :
    /\ NodeCalls[i].passed.request_timeout = NoneTimeout
    /\ pool[NodeCalls[i].node].request_timeout = "10"
    /\ NodeCalls[i].sent.timeout = NoTimeout

\* C38: every attempt of a call hands its node the arguments as they were
\* prepared before the loop (method, target, body bytes, header map,
\* request_timeout, ignore_status), and the objects the loop holds stay as
\* prepared, whatever the nodes tried before did with them.
C38_SameRequestEveryAttempt ==
  /\ \A i \in 1..Len(NodeCalls) : NodeCalls[i].passed = req[1].prepared
  /\ req[1].pc # "idle" => req[1].args = req[1].prepared

\* a second attempt after a node that sent the body compressed, with
\* Content-Encoding and its default headers added: the second node
\* gets the prepared body and headers and sends the body as it is
C38_Witness ==
  /\ Len(NodeCalls) = 2
  /\ NodeCalls[1].sent.body = gzip(req[1].prepared.body)
  /\ NodeCalls[1].sent.headers # req[1].prepared.headers
  /\ NodeCalls[2].passed = req[1].prepared
  /\ NodeCalls[2].sent.body = req[1].prepared.body

====
